---- MODULE Spec2Model ----
(***************************************************************************)
(* Model of the PFB -> Frictionless exporter, src/pfb/exporters/           *)
(* frictionless.py.                                                        *)
(*                                                                         *)
(* Two specifications:                                                     *)
(*   SpecSchema  the pure schema translation (_add_type, _field_descriptor,*)
(*               _get_schema), applied to inputs drawn in InitSchema;      *)
(*   Spec        one run of the `frictionless` command: catalog build,     *)
(*               the write pass of _write_tables (one step per record of   *)
(*               the reader), the descriptors, the success summary.        *)
(*                                                                         *)
(* Python values are encoded as follows.  A dict is a function whose       *)
(* domain is its set of keys (<<>> is the empty dict); a list is a         *)
(* sequence; a str that has to live next to dicts in one list (a type      *)
(* alternative) is wrapped as [str |-> s]; None is NoneDict where a dict   *)
(* is expected and PyNone where a cell value is expected.                  *)
(***************************************************************************)
EXTENDS Integers, Sequences, FiniteSets, TLC

VARIABLES
    fn, args, ret,          \* SpecSchema: function applied, its arguments, <<result>>
    pc,                     \* Spec: position of the run
    reader,                 \* the reader collaborator: schema and metadata listings
    schemas,                \* the schema catalog (dict node name -> table schema)
    pkgs,                   \* _write_tables.pkgs, ordered dict as a list of [id, path]
    writers,                \* _write_tables.writers, dict <<project, table>> -> writer
    stack,                  \* the ExitStack: file handles in the order they were entered
    dataFiles,              \* disk: path -> lines of a .tsv file
    schemaFiles,            \* disk: path -> content of a .json schema file
    descriptors,            \* disk: path -> content of a datapackage.json
    consumed,               \* history: records taken from the reader, in order
    written,                \* history: rows handed to a writer, in order
    opens,                  \* history: paths opened with mode 'w', in order
    schemaOf,               \* history: <<project, table>> -> path _write_schema wrote
    error,                  \* the exception that left the command, or "none"
    summary,                \* what click.secho reported at the end
    pkgIdx                  \* number of packages whose descriptor has been written

schemaVars == <<fn, args, ret>>
runVars == <<pc, reader, schemas, pkgs, writers, stack, dataFiles, schemaFiles,
             descriptors, consumed, written, opens, schemaOf, error, summary,
             pkgIdx>>
vars == <<fn, args, ret, pc, reader, schemas, pkgs, writers, stack, dataFiles,
          schemaFiles, descriptors, consumed, written, opens, schemaOf, error,
          summary, pkgIdx>>

(***************************************************************************)
(* Bounds                                                                  *)
(***************************************************************************)
MaxAlts == 2        \* longest list of type alternatives of a source field
MaxRecords == 3     \* longest record stream the reader yields

(***************************************************************************)
(* Python dict / list helpers                                              *)
(***************************************************************************)
NoneDict == [None |-> TRUE]
IsNone(d) == DOMAIN d = {"None"}
PyNone == "<None>"

Put(d, k, v) == [x \in (DOMAIN d) \cup {k} |-> IF x = k THEN v ELSE d[x]]
Update(d, e) == [x \in (DOMAIN d) \cup (DOMAIN e) |-> IF x \in DOMAIN e THEN e[x] ELSE d[x]]
Has(d, k) == k \in DOMAIN d
\* d.get(k) is truthy, for a str value / for a dict or list value
TruthyStr(d, k) == Has(d, k) /\ d[k] # ""
TruthyColl(d, k) == Has(d, k) /\ DOMAIN d[k] # {}

Range(s) == {s[i] : i \in DOMAIN s}
SeqsUpTo(S, n) == UNION {[1..k -> S] : k \in 0..n}

\* str.lower(), on the names the model uses
Lower(s) ==
    CASE s = "P1" -> "p1"
      [] s = "Sample" -> "sample"
      [] OTHER -> s

(***************************************************************************)
(* Schema translation                                                      *)
(***************************************************************************)
IsStr(t) == Has(t, "str")

type_map == [string |-> "string", float |-> "number",
             long |-> "integer", boolean |-> "boolean"]

\* one iteration of the loop of _add_type
AddTypeStep(descriptor, type) ==
    IF ~IsStr(type)
    THEN IF Has(type, "type") /\ type["type"] = "enum"
         THEN Put(Put(descriptor, "type", "string"),
                  "constraints", [enum |-> type["symbols"]])
         ELSE descriptor
    ELSE IF type["str"] \in DOMAIN type_map
         THEN Put(descriptor, "type", type_map[type["str"]])
         ELSE descriptor

RECURSIVE AddTypeLoop(_, _)
AddTypeLoop(types, descriptor) ==
    IF types = <<>> THEN descriptor
    ELSE AddTypeLoop(Tail(types), AddTypeStep(descriptor, Head(types)))

_add_type(field, descriptor) == AddTypeLoop(field["type"], descriptor)

_field_descriptor(field, meta) ==
    LET d0 == _add_type(field, [name |-> field["name"]])
    IN  IF IsNone(meta) THEN d0                        \* AttributeError: pass
        ELSE IF Has(meta, "name") /\ meta["name"] = d0["name"]
        THEN LET d1 == IF TruthyStr(meta, "ontology_reference")
                       THEN Put(d0, "ontology_reference", meta["ontology_reference"])
                       ELSE d0
             IN  IF TruthyColl(meta, "values") THEN Update(d1, meta["values"]) ELSE d1
        ELSE d0

ForeignKey(link) ==
    [fields |-> link["name"],
     reference |-> [resource |-> link["dst"], fields |-> "submitter_id"]]

_add_foreign_keys(schema, links) ==
    Put(Put(schema, "fields",
            schema["fields"] \o [i \in DOMAIN links |-> [name |-> links[i]["name"]]]),
        "foreignKeys", [i \in DOMAIN links |-> ForeignKey(links[i])])

\* fld_meta = {p['name']: p for p in meta['properties']}; fld_meta.get(name)
FldMetaGet(properties, name) ==
    LET hits == {i \in DOMAIN properties : properties[i]["name"] = name}
    IN  IF hits = {} THEN NoneDict
        ELSE properties[CHOOSE i \in hits : \A j \in hits : j <= i]

FieldNamesOf(fields) == [i \in DOMAIN fields |-> fields[i]["name"]]

_get_schema(record, meta) ==
    LET fields == [i \in DOMAIN record["fields"] |->
                     _field_descriptor(record["fields"][i],
                        FldMetaGet(meta["properties"], record["fields"][i]["name"]))]
        s0 == [fields |-> fields]
        s1 == IF "submitter_id" \in Range(FieldNamesOf(fields))
              THEN Put(s0, "primaryKey", "submitter_id") ELSE s0
        s2 == IF TruthyColl(meta, "links")
              THEN _add_foreign_keys(s1, meta["links"]) ELSE s1
        s3 == IF TruthyStr(meta, "ontology_reference")
              THEN Put(s2, "ontology_reference", meta["ontology_reference"]) ELSE s2
    IN  IF TruthyColl(meta, "values") THEN Update(s3, meta["values"]) ELSE s3

(***************************************************************************)
(* Inputs of the schema translation                                        *)
(***************************************************************************)
Str(s) == [str |-> s]
Enum(symbols) == [type |-> "enum", symbols |-> symbols]

TypeTags ==
    {Str(s) : s \in {"string", "float", "long", "boolean", "null"}}
    \cup {Enum(<<"a", "b">>), Enum(<<"c">>), [type |-> "array"]}

FieldNames == {"submitter_id", "age"}

SourceFields == {[name |-> n, type |-> t] : n \in FieldNames, t \in SeqsUpTo(TypeTags, MaxAlts)}

MetaValues == {<<>>, [term |-> "t1"], [type |-> "any"], [name |-> "alias"]}

FieldMetas ==
    {NoneDict}
    \cup {[name |-> n] : n \in FieldNames}
    \cup {[name |-> n, ontology_reference |-> o, values |-> v] :
            n \in FieldNames, o \in {"", "NCIt"}, v \in MetaValues}

SidField == [name |-> "submitter_id", type |-> <<Str("string")>>]
AgeField == [name |-> "age", type |-> <<Str("null"), Str("long")>>]

NodeRecords ==
    {[name |-> "subject", fields |-> f] :
        f \in {<<>>, <<SidField>>, <<AgeField>>, <<SidField, AgeField>>,
               <<AgeField, SidField>>}}

SampleLink == [name |-> "samples", dst |-> "sample"]
SidLink == [name |-> "submitter_id", dst |-> "subject"]

NodeLinks == {<<>>, <<SampleLink>>, <<SidLink>>, <<SampleLink, SidLink>>}

NodeProperties == {<<>>, <<[name |-> "age", ontology_reference |-> "NCIt",
                            values |-> [term |-> "t1"]]>>}

NodeMetas ==
    {[name |-> "subject", properties |-> p] : p \in NodeProperties}
    \cup {[name |-> "subject", properties |-> p, links |-> l,
           ontology_reference |-> o, values |-> v] :
            p \in NodeProperties, l \in NodeLinks, o \in {"", "NCIt"},
            v \in {<<>>, [term |-> "t1"]}}

(***************************************************************************)
(* SpecSchema                                                              *)
(***************************************************************************)
RunIdle ==
    /\ pc = "idle" /\ reader = <<>> /\ schemas = <<>> /\ pkgs = <<>>
    /\ writers = <<>> /\ stack = <<>> /\ dataFiles = <<>> /\ schemaFiles = <<>>
    /\ descriptors = <<>> /\ consumed = <<>> /\ written = <<>> /\ opens = <<>>
    /\ schemaOf = <<>> /\ error = "none" /\ summary = "none" /\ pkgIdx = 0

InitSchema ==
    /\ RunIdle
    /\ ret = <<>>
    /\ \/ /\ fn = "_add_type"
          /\ args \in {[field |-> f, descriptor |-> [name |-> f["name"]]] : f \in SourceFields}
       \/ /\ fn = "_field_descriptor"
          /\ args \in {[field |-> f, meta |-> m] : f \in SourceFields, m \in FieldMetas}
       \/ /\ fn = "_get_schema"
          /\ args \in {[record |-> r, meta |-> m] : r \in NodeRecords, m \in NodeMetas}

CallAddType ==
    /\ fn = "_add_type" /\ ret = <<>>
    /\ ret' = <<_add_type(args["field"], args["descriptor"])>>
    /\ UNCHANGED <<fn, args, runVars>>

CallFieldDescriptor ==
    /\ fn = "_field_descriptor" /\ ret = <<>>
    /\ ret' = <<_field_descriptor(args["field"], args["meta"])>>
    /\ UNCHANGED <<fn, args, runVars>>

CallGetSchema ==
    /\ fn = "_get_schema" /\ ret = <<>>
    /\ ret' = <<_get_schema(args["record"], args["meta"])>>
    /\ UNCHANGED <<fn, args, runVars>>

NextSchema == CallAddType \/ CallFieldDescriptor \/ CallGetSchema

SpecSchema == InitSchema /\ [][NextSchema]_vars

(***************************************************************************)
(* The run: reader inputs                                                  *)
(***************************************************************************)
ProjField == [name |-> "project_id", type |-> <<Str("string")>>]
VolField == [name |-> "vol", type |-> <<Str("null"), Str("float")>>]

SubjectNode == [name |-> "subject", fields |-> <<SidField, ProjField>>]
SampleNode == [name |-> "Sample", fields |-> <<SidField, ProjField, VolField>>]

SubjectMeta == [name |-> "subject", properties |-> <<>>, links |-> <<>>]
SampleMeta == [name |-> "Sample", properties |-> <<>>,
               links |-> <<[name |-> "subjects", dst |-> "subject"]>>]

\* reader.schema and reader.metadata['nodes']; the second reader lacks the
\* metadata of a node of its schema listing
Readers ==
    {[schema |-> <<SubjectNode, SampleNode>>, nodes |-> <<SubjectMeta, SampleMeta>>],
     [schema |-> <<SubjectNode, SampleNode>>, nodes |-> <<SubjectMeta>>]}

Obj(pid, sid) == [project_id |-> pid, submitter_id |-> sid]
Rel(name, id) == [dst_name |-> name, dst_id |-> id]

\* the records the reader may yield, in any order and number up to MaxRecords
Records ==
    {[name |-> "subject", object |-> Obj("P1", "s1"), relations |-> <<>>],
     [name |-> "subject", object |-> Obj("p1", "s2"), relations |-> <<>>],
     [name |-> "Sample", object |-> Put(Obj("P1", "a1"), "vol", "1.5"),
      relations |-> <<Rel("subject", "s1")>>],
     [name |-> "Sample", object |-> Obj("p1", "a2"), relations |-> <<>>],
     [name |-> "Sample", object |-> Obj("Q", "a3"),
      relations |-> <<Rel("subject", "s1"), Rel("subject", "s2")>>],
     [name |-> "Sample", object |-> Obj("Q", "a4"),
      relations |-> <<Rel("aliquot", "q1")>>],
     [name |-> "ghost", object |-> Obj("P1", "g1"), relations |-> <<>>],
     [name |-> "ghost", object |-> Obj("p1", "g2"), relations |-> <<>>],
     [name |-> "subject", object |-> Put(Obj("Q", "s3"), "junk", "j"),
      relations |-> <<>>]}

(***************************************************************************)
(* Ordered dicts (schemas, pkgs) as lists of [k, v]                        *)
(***************************************************************************)
ODKeys(od) == {od[i]["k"] : i \in DOMAIN od}
ODGet(od, key) == od[CHOOSE i \in DOMAIN od : od[i]["k"] = key]["v"]
ODSet(od, key, val) ==
    IF key \in ODKeys(od)
    THEN [i \in DOMAIN od |-> IF od[i]["k"] = key THEN [k |-> key, v |-> val] ELSE od[i]]
    ELSE Append(od, [k |-> key, v |-> val])

(***************************************************************************)
(* Catalog                                                                 *)
(***************************************************************************)
\* meta = {node['name']: node for node in reader.metadata['nodes']}
MetaHas(nodes, name) == \E i \in DOMAIN nodes : nodes[i]["name"] = name
MetaGet(nodes, name) ==
    nodes[CHOOSE i \in DOMAIN nodes :
            /\ nodes[i]["name"] = name
            /\ \A j \in DOMAIN nodes : nodes[j]["name"] = name => j <= i]

RECURSIVE GetSchemasLoop(_, _, _)
GetSchemasLoop(listing, nodes, acc) ==
    IF listing = <<>> THEN acc
    ELSE LET node == Head(listing)
         IN  GetSchemasLoop(Tail(listing), nodes,
                ODSet(acc, node["name"], _get_schema(node, MetaGet(nodes, node["name"]))))

_get_schemas(rd) == GetSchemasLoop(rd["schema"], rd["nodes"], <<>>)

\* meta[node['name']] raises KeyError for some node of the listing
GetSchemasRaises(rd) ==
    \E i \in DOMAIN rd["schema"] : ~MetaHas(rd["nodes"], rd["schema"][i]["name"])

(***************************************************************************)
(* Files                                                                   *)
(***************************************************************************)
\* a gap left in a file by a write beyond its end (NUL bytes)
Hole == <<"\\0">>

Max(a, b) == IF a >= b THEN a ELSE b

WriteAt(content, pos, buf) ==
    [i \in 1..Max(Len(content), pos + Len(buf)) |->
        IF i > pos /\ i <= pos + Len(buf) THEN buf[i - pos]
        ELSE IF i <= Len(content) THEN content[i]
        ELSE Hole]

\* the state _write_tables works on
World == [writers |-> writers, stack |-> stack, dataFiles |-> dataFiles,
          schemaFiles |-> schemaFiles, opens |-> opens, schemaOf |-> schemaOf]

\* flush of handle i: its pending lines go to the file at the handle's offset
Flush(w, i) ==
    LET h == w["stack"][i]
    IN  IF h["buf"] = <<>> THEN w
        ELSE [w EXCEPT
                !["dataFiles"] = Put(@, h["path"], WriteAt(@[h["path"]], h["pos"], h["buf"])),
                !["stack"] = [@ EXCEPT ![i] = [h EXCEPT !["pos"] = h["pos"] + Len(h["buf"]),
                                                        !["buf"] = <<>>]]]

Close(w, i) ==
    LET f == Flush(w, i)
    IN  [f EXCEPT !["stack"] = [@ EXCEPT ![i] = [@ EXCEPT !["closed"] = TRUE]]]

RECURSIVE CloseDownFrom(_, _)
CloseDownFrom(w, i) == IF i = 0 THEN w ELSE CloseDownFrom(Close(w, i), i - 1)

\* variant: only the file entered last is closed
ExitStackCloseTop(w) == IF w["stack"] = <<>> THEN w ELSE Close(w, Len(w["stack"]))

\* ExitStack.__exit__: the entered files are closed, last entered first
ExitStackClose(w) == CloseDownFrom(w, Len(w["stack"]))

PkgPath(outdir, project_id) == outdir \o Lower(project_id)
DataPath(pkg, table) == pkg \o "/data/" \o Lower(table) \o ".tsv"
SchemaPath(dirpath, name) == dirpath \o "/" \o Lower(name) \o ".json"
DataDir(pkg) == pkg \o "/data"
Outdir == "out/"

\* body of `for table in schemas` (lines 154-161)
ProvisionTable(w, project_id, pkg, table, schema) ==
    LET path == DataPath(pkg, table)
        fieldnames == FieldNamesOf(schema["fields"])
        handle == [path |-> path, pos |-> 0, buf |-> <<fieldnames>>, closed |-> FALSE]
    IN  [writers |-> Put(w["writers"], <<project_id, table>>,
                         [f |-> Len(w["stack"]) + 1, fieldnames |-> fieldnames]),
         stack |-> Append(w["stack"], handle),
         dataFiles |-> Put(w["dataFiles"], path, <<>>),
         schemaFiles |-> Put(w["schemaFiles"], SchemaPath(DataDir(pkg), table), schema),
         opens |-> Append(w["opens"], path),
         schemaOf |-> Put(w["schemaOf"], <<project_id, table>>,
                          SchemaPath(DataDir(pkg), table))]

RECURSIVE ProvisionLoop(_, _, _, _)
ProvisionLoop(w, project_id, pkg, tables) ==
    IF tables = <<>> THEN w
    ELSE ProvisionLoop(
            ProvisionTable(w, project_id, pkg, Head(tables)["k"], Head(tables)["v"]),
            project_id, pkg, Tail(tables))

(***************************************************************************)
(* _write_record                                                           *)
(***************************************************************************)
\* relations = {i['dst_name']: i['dst_id'] for i in record['relations']}; .get
RelationsGet(relations, name) ==
    LET hits == {i \in DOMAIN relations : relations[i]["dst_name"] = name}
    IN  IF hits = {} THEN PyNone
        ELSE relations[CHOOSE i \in hits : \A j \in hits : j <= i]["dst_id"]

\* variant: the relation is looked up under the foreign key's own field name
RECURSIVE ResolveForeignKeysByField(_, _, _)
ResolveForeignKeysByField(dict, relations, fks) ==
    IF fks = <<>> THEN dict
    ELSE ResolveForeignKeysByField(
            Put(dict, Head(fks)["fields"], RelationsGet(relations, Head(fks)["fields"])),
            relations, Tail(fks))

RECURSIVE ResolveForeignKeys(_, _, _)
ResolveForeignKeys(dict, relations, fks) ==
    IF fks = <<>> THEN dict
    ELSE ResolveForeignKeys(
            Put(dict, Head(fks)["fields"],
                RelationsGet(relations, Head(fks)["reference"]["resource"])),
            relations, Tail(fks))

RowDict(record, schema) ==
    IF Has(schema, "foreignKeys")
    THEN ResolveForeignKeys(record["object"], record["relations"], schema["foreignKeys"])
    ELSE record["object"]

\* csv writes None as the empty string
Serialize(v) == IF v = PyNone THEN "" ELSE v

\* csv.DictWriter.writerow: ValueError on a key outside fieldnames
\* (extrasaction='raise'), else the values in fieldnames order, restval ''
WriterowRaises(fieldnames, rowdict) == ~(DOMAIN rowdict \subseteq Range(fieldnames))
Writerow(fieldnames, rowdict) ==
    [i \in DOMAIN fieldnames |->
        IF Has(rowdict, fieldnames[i]) THEN Serialize(rowdict[fieldnames[i]]) ELSE ""]

(***************************************************************************)
(* Spec: the run of the command                                            *)
(***************************************************************************)
Init ==
    /\ fn = "none" /\ args = <<>> /\ ret = <<>>
    /\ pc = "start"
    /\ reader \in Readers
    /\ schemas = <<>> /\ pkgs = <<>>
    /\ writers = <<>> /\ stack = <<>> /\ dataFiles = <<>> /\ schemaFiles = <<>>
    /\ descriptors = <<>> /\ consumed = <<>> /\ written = <<>> /\ opens = <<>>
    /\ schemaOf = <<>> /\ error = "none" /\ summary = "none" /\ pkgIdx = 0

SetWorld(w) ==
    /\ writers' = w["writers"]
    /\ stack' = w["stack"]
    /\ dataFiles' = w["dataFiles"]
    /\ schemaFiles' = w["schemaFiles"]
    /\ opens' = w["opens"]
    /\ schemaOf' = w["schemaOf"]

\* except Exception as e: secho('Package creation failed!'); raise e
Fail(e) ==
    /\ pc' = "failed"
    /\ error' = e
    /\ summary' = "Package creation failed!"

BuildCatalog ==
    /\ pc = "start"
    /\ ~GetSchemasRaises(reader)
    /\ schemas' = _get_schemas(reader)
    /\ pc' = "writing"
    /\ UNCHANGED <<schemaVars, reader, pkgs, writers, stack, dataFiles, schemaFiles,
                   descriptors, consumed, written, opens, schemaOf, error, summary,
                   pkgIdx>>

BuildCatalogFails ==
    /\ pc = "start"
    /\ GetSchemasRaises(reader)
    /\ Fail("KeyError")
    /\ UNCHANGED <<schemaVars, reader, schemas, pkgs, writers, stack, dataFiles,
                   schemaFiles, descriptors, consumed, written, opens, schemaOf,
                   pkgIdx>>

ProjectOf(record) == record["object"]["project_id"]

\* lines 148-161: the package of a project not seen before
PkgsAfter(record) ==
    IF ProjectOf(record) \in ODKeys(pkgs) THEN pkgs
    ELSE ODSet(pkgs, ProjectOf(record), PkgPath(Outdir, ProjectOf(record)))

Provisioned(record) ==
    IF ProjectOf(record) \in ODKeys(pkgs) THEN World
    ELSE ProvisionLoop(World, ProjectOf(record),
                       PkgPath(Outdir, ProjectOf(record)), schemas)

WriterKey(record) == <<ProjectOf(record), record["name"]>>

\* one iteration of `for record in reader` that writes a row; flush tells
\* whether the write filled the file's buffer
WriteRecord(record, flush) ==
    /\ pc = "writing"
    /\ Len(consumed) < MaxRecords
    /\ LET w == Provisioned(record)
       IN  /\ WriterKey(record) \in DOMAIN w["writers"]
           /\ LET writer == w["writers"][WriterKey(record)]
                  rowdict == RowDict(record, ODGet(schemas, record["name"]))
                  row == Writerow(writer["fieldnames"], rowdict)
                  w1 == [w EXCEPT !["stack"] =
                            [@ EXCEPT ![writer["f"]] =
                                [@ EXCEPT !["buf"] = Append(@, row)]]]
              IN  /\ ~WriterowRaises(writer["fieldnames"], rowdict)
                  /\ SetWorld(IF flush THEN Flush(w1, writer["f"]) ELSE w1)
                  /\ written' = Append(written,
                        [idx |-> Len(consumed) + 1, project |-> ProjectOf(record),
                         table |-> record["name"],
                         path |-> w["stack"][writer["f"]]["path"], row |-> row])
    /\ pkgs' = PkgsAfter(record)
    /\ consumed' = Append(consumed, record)
    /\ UNCHANGED <<schemaVars, pc, reader, schemas, descriptors, error, summary, pkgIdx>>

\* writers[(project_id, name)] raises KeyError: the ExitStack unwinds
UnknownNode(record) ==
    /\ pc = "writing"
    /\ Len(consumed) < MaxRecords
    /\ LET w == Provisioned(record)
       IN  /\ WriterKey(record) \notin DOMAIN w["writers"]
           /\ SetWorld(ExitStackClose(w))
    /\ pkgs' = PkgsAfter(record)
    /\ consumed' = Append(consumed, record)
    /\ Fail("KeyError")
    /\ UNCHANGED <<schemaVars, reader, schemas, descriptors, written, pkgIdx>>

\* writer.writerow raises ValueError: the ExitStack unwinds
RejectedRow(record) ==
    /\ pc = "writing"
    /\ Len(consumed) < MaxRecords
    /\ LET w == Provisioned(record)
       IN  /\ WriterKey(record) \in DOMAIN w["writers"]
           /\ WriterowRaises(w["writers"][WriterKey(record)]["fieldnames"],
                             RowDict(record, ODGet(schemas, record["name"])))
           /\ SetWorld(ExitStackClose(w))
    /\ pkgs' = PkgsAfter(record)
    /\ consumed' = Append(consumed, record)
    /\ Fail("ValueError")
    /\ UNCHANGED <<schemaVars, reader, schemas, descriptors, written, pkgIdx>>

\* the reader is exhausted: the with block ends, _write_tables returns pkgs
EndOfStream ==
    /\ pc = "writing"
    /\ SetWorld(ExitStackClose(World))
    /\ pc' = "descriptors"
    /\ UNCHANGED <<schemaVars, reader, schemas, pkgs, descriptors, consumed, written,
                   error, summary, pkgIdx>>

Resource(schema) ==
    [profile |-> "tabular-data-resource", name |-> Lower(schema),
     path |-> "data/" \o schema \o ".tsv", format |-> "csv",
     mediatype |-> "text/csv", encoding |-> "utf-8",
     dialect |-> [delimiter |-> "\\t"], schema |-> "data/" \o schema \o ".json"]

Descriptor(project_id, catalog) ==
    [name |-> Lower(project_id),
     resources |-> [i \in DOMAIN catalog |-> Resource(catalog[i]["k"])]]

\* one iteration of `for pkg in pkgs: _write_descriptor(pkg, pkgs[pkg], schemas)`
WriteDescriptor ==
    /\ pc = "descriptors"
    /\ pkgIdx < Len(pkgs)
    /\ LET pkg == pkgs[pkgIdx + 1]
       IN  descriptors' = Put(descriptors, pkg["v"] \o "/datapackage.json",
                              Descriptor(pkg["k"], schemas))
    /\ pkgIdx' = pkgIdx + 1
    /\ UNCHANGED <<schemaVars, pc, reader, schemas, pkgs, writers, stack, dataFiles,
                   schemaFiles, consumed, written, opens, schemaOf, error, summary>>

\* click.secho(f'Created {len(pkgs)} package(s) under: ')
ReportSuccess ==
    /\ pc = "descriptors"
    /\ pkgIdx = Len(pkgs)
    /\ pc' = "done"
    /\ summary' = "Created"
    /\ UNCHANGED <<schemaVars, reader, schemas, pkgs, writers, stack, dataFiles,
                   schemaFiles, descriptors, consumed, written, opens, schemaOf,
                   error, pkgIdx>>

Next ==
    \/ BuildCatalog
    \/ BuildCatalogFails
    \/ \E record \in Records, flush \in BOOLEAN : WriteRecord(record, flush)
    \/ \E record \in Records : UnknownNode(record)
    \/ \E record \in Records : RejectedRow(record)
    \/ EndOfStream
    \/ WriteDescriptor
    \/ ReportSuccess

Spec == Init /\ [][Next]_vars

(***************************************************************************)
(* Properties of the schema translation (checked under SpecSchema)         *)
(***************************************************************************)
IsEnum(t) == ~IsStr(t) /\ Has(t, "type") /\ t["type"] = "enum"
IsScalar(t) == IsStr(t) /\ t["str"] \in DOMAIN type_map
LastOf(S) == CHOOSE i \in S : \A j \in S : j <= i

\* C4 - Type mapping with enum precedence: if some type alternative of the
\* field is an enum, the descriptor has type "string" and constraints.enum
\* equal to an enum alternative's symbols, wherever the enum stands;
\* otherwise the type is the image of the last recognised scalar; with no
\* recognised alternative the descriptor has no type.
C4_EnumPrecedence ==
    (fn = "_add_type" /\ ret # <<>>) =>
        LET d == ret[1]
            types == args["field"]["type"]
            enums == {i \in DOMAIN types : IsEnum(types[i])}
            scalars == {i \in DOMAIN types : IsScalar(types[i])}
        IN  IF enums # {}
            THEN /\ Has(d, "type") /\ d["type"] = "string"
                 /\ Has(d, "constraints")
                 /\ d["constraints"]["enum"] \in {types[i]["symbols"] : i \in enums}
            ELSE IF scalars # {}
            THEN Has(d, "type") /\ d["type"] = type_map[types[LastOf(scalars)]["str"]]
            ELSE ~Has(d, "type")

\* C5 - Primary key detection: the schema returned by _get_schema carries
\* primaryKey = "submitter_id" if and only if a field named submitter_id is
\* among its final `fields`, relation fields included.
C5_PrimaryKeyIffField ==
    (fn = "_get_schema" /\ ret # <<>>) =>
        LET schema == ret[1]
        IN  (Has(schema, "primaryKey") /\ schema["primaryKey"] = "submitter_id")
            <=> ("submitter_id" \in Range(FieldNamesOf(schema["fields"])))

\* C10 - Metadata merge frame: with a field metadata whose name matches the
\* field, the descriptor of _field_descriptor has the name and the type of
\* the descriptor built from the field alone.
C10_MetaKeepsNameAndType ==
    (/\ fn = "_field_descriptor" /\ ret # <<>>
     /\ ~IsNone(args["meta"])
     /\ args["meta"]["name"] = args["field"]["name"]) =>
        LET d == ret[1]
            alone == _field_descriptor(args["field"], NoneDict)
        IN  /\ d["name"] = alone["name"]
            /\ Has(d, "type") <=> Has(alone, "type")
            /\ Has(alone, "type") => d["type"] = alone["type"]

(***************************************************************************)
(* Properties of the run (checked under Spec)                              *)
(***************************************************************************)
CatalogNames == ODKeys(schemas)
SeenProjects == {ProjectOf(consumed[i]) : i \in DOMAIN consumed}
AllClosed == \A i \in DOMAIN stack : stack[i]["closed"]
Fieldnames(table) == FieldNamesOf(ODGet(schemas, table)["fields"])
RowsOf(project_id, table) ==
    {i \in DOMAIN written :
        written[i]["project"] = project_id /\ written[i]["table"] = table}
NodeOf(name) == reader["schema"][CHOOSE i \in DOMAIN reader["schema"] :
                                    reader["schema"][i]["name"] = name]

\* C1 - Completeness: after a write pass that ended normally, every project
\* seen and every node of the catalog have a data file and a schema file in
\* the project's package, and the data file of a pair that received no
\* record holds the header row only.
C1_Completeness ==
    pc \in {"descriptors", "done"} =>
        \A project_id \in SeenProjects : \A table \in CatalogNames :
            LET pkg == ODGet(pkgs, project_id)
            IN  /\ Has(dataFiles, DataPath(pkg, table))
                /\ Has(schemaFiles, SchemaPath(DataDir(pkg), table))
                /\ RowsOf(project_id, table) = {} =>
                        dataFiles[DataPath(pkg, table)] = <<Fieldnames(table)>>

\* C2 - Relation resolution: in every row _write_record emitted, the column
\* named by a foreign key's `fields` holds the dst_id of the record's (last)
\* relation whose dst_name is the referenced resource, and is empty when
\* the record has no such relation; a record of a known node whose object
\* has only schema fields is always written, without error.
C2_RelationResolution ==
    /\ \A w \in DOMAIN written :
        LET record == consumed[written[w]["idx"]]
            schema == ODGet(schemas, record["name"])
            names == Fieldnames(record["name"])
            fks == IF Has(schema, "foreignKeys") THEN schema["foreignKeys"] ELSE <<>>
        IN  \A k \in DOMAIN fks : \A c \in DOMAIN names :
                names[c] = fks[k]["fields"] =>
                    LET target == fks[k]["reference"]["resource"]
                        hits == {r \in DOMAIN record["relations"] :
                                    record["relations"][r]["dst_name"] = target}
                    IN  /\ Len(written[w]["row"]) = Len(names)
                        /\ written[w]["row"][c] =
                            IF hits = {} THEN ""
                            ELSE record["relations"][LastOf(hits)]["dst_id"]
    /\ \A i \in DOMAIN consumed :
        (/\ consumed[i]["name"] \in CatalogNames
         /\ DOMAIN consumed[i]["object"] \subseteq Range(Fieldnames(consumed[i]["name"])))
        => /\ \E w \in DOMAIN written : written[w]["idx"] = i
           /\ (i = Len(consumed) => error = "none")

\* a written row of a record that has no relation to the referenced resource
C2_Witness ==
    /\ \E w \in DOMAIN written :
        /\ written[w]["table"] = "Sample"
        /\ consumed[written[w]["idx"]]["relations"] = <<>>
        /\ written[w]["row"][4] = ""
    /\ \E w \in DOMAIN written :
        /\ written[w]["table"] = "Sample"
        /\ consumed[written[w]["idx"]]["relations"] # <<>>
        /\ written[w]["row"][4] = "s1"

\* what is in a data file and in the buffers of its handles obeys the schema
FileObeys(lines, names) ==
    lines # <<>> =>
        /\ lines[1] = names
        /\ \A i \in 2..Len(lines) : lines[i] # Hole => Len(lines[i]) = Len(names)

\* C3 - Row/header arity: at every point of the run, in every data file the
\* header row lists the names of the node's translated schema fields in
\* schema order (declared properties, then one column per link), and every
\* data row has that many columns in that order, an absent field being an
\* empty column.
C3_RowHeaderArity ==
    /\ \A key \in DOMAIN writers :
        LET names == Fieldnames(key[2])
            meta == MetaGet(reader["nodes"], key[2])
        IN  /\ names = FieldNamesOf(NodeOf(key[2])["fields"])
                        \o FieldNamesOf(meta["links"])
            /\ FileObeys(dataFiles[stack[writers[key]["f"]]["path"]], names)
    /\ \A w \in DOMAIN written :
        LET record == consumed[written[w]["idx"]]
            names == Fieldnames(record["name"])
        IN  /\ Len(written[w]["row"]) = Len(names)
            /\ \A c \in DOMAIN names :
                ~Has(RowDict(record, ODGet(schemas, record["name"])), names[c])
                    => written[w]["row"][c] = ""

\* C6 - Unknown node is fatal: a record whose node is not in the catalog
\* aborts the run at that record: no row for it, no later record, no
\* descriptor, no success summary, and the rows and files written for the
\* earlier records are still on disk.
C6_UnknownNodeFatal ==
    /\ \A i \in DOMAIN consumed :
        consumed[i]["name"] \notin CatalogNames =>
            /\ pc = "failed" /\ error = "KeyError"
            /\ i = Len(consumed)
            /\ \A w \in DOMAIN written : written[w]["idx"] # i
            /\ descriptors = <<>>
            /\ summary # "Created"
            /\ \A w \in DOMAIN written :
                /\ Has(dataFiles, written[w]["path"])
                /\ written[w]["row"] \in Range(dataFiles[written[w]["path"]])

\* C7 - Handle release ordering: once the write pass has ended, normally or
\* with an error, every data-file handle it opened is closed; no descriptor
\* exists while a handle is open.
C7_HandlesReleased ==
    /\ pc \in {"descriptors", "done", "failed"} => AllClosed
    /\ descriptors # <<>> => AllClosed

\* the write pass left with an error after rows were written
C7_Witness ==
    /\ pc = "failed" /\ error \in {"KeyError", "ValueError"}
    /\ written # <<>>
    /\ Len(stack) >= 4
    /\ AllClosed

\* C8 - Descriptor points at the written files: in every package descriptor,
\* for every node of the catalog, the resource's path and schema, relative
\* to the package directory, are the data file and the schema file the
\* write pass created for that node in that package.
C8_DescriptorPointsAtFiles ==
    \A p \in 1..pkgIdx :
        LET d == descriptors[pkgs[p]["v"] \o "/datapackage.json"]
        IN  \A table \in CatalogNames :
                \E r \in DOMAIN d["resources"] :
                    /\ d["resources"][r]["name"] = Lower(table)
                    /\ pkgs[p]["v"] \o "/" \o d["resources"][r]["path"]
                        = stack[writers[<<pkgs[p]["k"], table>>]["f"]]["path"]
                    /\ pkgs[p]["v"] \o "/" \o d["resources"][r]["schema"]
                        = schemaOf[<<pkgs[p]["k"], table>>]

\* C9 - Package exclusivity: distinct project ids get distinct package
\* directories, each data file is opened once, by one writer, and once the
\* pass is over every row written is in its data file.
C9_PackageExclusivity ==
    /\ \A i, j \in DOMAIN pkgs : i # j => pkgs[i]["v"] # pkgs[j]["v"]
    /\ \A i, j \in DOMAIN opens : i # j => opens[i] # opens[j]
    /\ \A k1, k2 \in DOMAIN writers :
        k1 # k2 => stack[writers[k1]["f"]]["path"] # stack[writers[k2]["f"]]["path"]
    /\ pc \in {"descriptors", "done"} =>
        \A w \in DOMAIN written :
            written[w]["row"] \in Range(dataFiles[written[w]["path"]])

====
